---- MODULE Spec2Model ----
(***************************************************************************)
(* Land-registry price prediction: the training script (lstm_model.py),    *)
(* the model store it writes, and the Flask prediction service             *)
(* (prediction_api.py) that loads the store and answers /api/predict.      *)
(*                                                                         *)
(* Strings that the code takes apart (the door identifier) are sequences   *)
(* of one-character strings.  Averages are exact rationals [num, den];     *)
(* IEEE rounding of Python floats is not modelled.  Rates in the corpora   *)
(* are small so that every product stays inside TLC's 32-bit integers.     *)
(***************************************************************************)
EXTENDS Integers, Sequences, FiniteSets, TLC

VARIABLES
    dataset_file,       \* records of '../src/data/tirupatidataset_with_location.json'
    check_path_exists,  \* os.path.exists('saved_models/lstm_model.h5')
    store,              \* the four files of 'ml-model/saved_models'
    trainer,            \* the process running lstm_model.py's __main__
    runs,               \* how many times the training script was started
    api,                \* the process running prediction_api.py
    response,           \* the last HTTP response of the service
    locals,             \* predict_price's locals when it last returned
    door_input,         \* tr_door_no handed to the door parse
    door_parsed,        \* (ward_no, block_no, door_no) it left
    seq_in,             \* features, target and sequence_length of create_sequences
    seq_out             \* X, y it returned

vars == <<dataset_file, check_path_exists, store, trainer, runs, api, response,
          locals, door_input, door_parsed, seq_in, seq_out>>

(***************************************************************************)
(* Bounds of the model                                                     *)
(***************************************************************************)
MaxRuns == 2
MaxDoorLen == 7
MaxRows == 5
MaxSeqLen == 3

(***************************************************************************)
(* Program constants                                                       *)
(***************************************************************************)
sequence_length == 10
FallbackRecords == 100
HighMin == 50
MediumMin == 10
MaxComparables == 5
DefaultCommRate == 3000
DefaultFloor1 == 3500
DefaultFloorOth == 3200
DefaultPrevRate == 40000
DefaultUnitRate == 40000
DefaultArea == 1000
VarianceHigh == 8
VarianceMedium == 10
VarianceLow == 12
TestPercent == 20
ValidationPercent == 20

(***************************************************************************)
(* Generic helpers                                                         *)
(***************************************************************************)
\* dict.get(key, default)
Get(p, f, d) == IF f \in DOMAIN p THEN p[f] ELSE d

\* list[:n]
Take(s, n) == IF Len(s) <= n THEN s ELSE SubSeq(s, 1, n)

Max(a, b) == IF a >= b THEN a ELSE b

\* s[lo] + ... + s[hi]
RECURSIVE SumRange(_, _, _)
SumRange(s, lo, hi) ==
    IF lo > hi THEN 0
    ELSE IF lo = hi THEN s[lo]
    ELSE LET mid == (lo + hi) \div 2
         IN  SumRange(s, lo, mid) + SumRange(s, mid + 1, hi)

\* sum(s)
SumSeq(s) == SumRange(s, 1, Len(s))

\* int(num / den): truncation toward zero, den > 0
Trunc(num, den) == IF num >= 0 THEN num \div den ELSE -((-num) \div den)

\* ceil(pct% of n) and floor(pct% of n), n >= 0
CeilPct(n, pct) == (n * pct + 99) \div 100
FloorPct(n, pct) == (n * pct) \div 100

(***************************************************************************)
(* The dataset: transaction records of the JSON file's "data" array        *)
(***************************************************************************)
\* Record number i of a corpus; TR_DOOR_NO, a string in the data, is here
\* the number i, which identifies the record.  Every thirteenth record
\* carries no rates (the .get defaults apply to it), and every thirteenth
\* has the invalid UNIT_RATE 0 that load_data removes.
Rec(m, v, i) ==
    LET base == [DISTRICT |-> "Tirupati", MANDAL |-> m, VILLAGE |-> v,
                 TR_DOOR_NO |-> i, WARD_NO |-> 1 + (i % 4), BLOCK_NO |-> 1, DOOR_NO |-> i,
                 EFFECTIVE_DATE |-> (i * 400) % 1009]
    IN  IF i % 13 = 5 THEN base
        ELSE IF i % 13 = 9
        THEN base @@ [UNIT_RATE |-> 0, COMM_RATE |-> 30 + (i % 2)]
        ELSE base @@ [UNIT_RATE |-> 38 + 2 * (i % 3), COMM_RATE |-> 30 + (i % 2),
                      COMP_FLOOR1 |-> 35, COMP_FLOOR_OTH |-> 32,
                      PRE_REV_UNIT_RATE |-> 36 + (i % 3)]

\* a records of (A, X), b of (A, Y) and c of (B, Z); the (B, Z) block comes
\* first when bfirst.
Corpus(a, b, c, bfirst) ==
    [i \in 1..(a + b + c) |->
        IF bfirst
        THEN IF i <= c THEN Rec("B", "Z", i)
             ELSE IF i <= c + a THEN Rec("A", "X", i) ELSE Rec("A", "Y", i)
        ELSE IF i <= a THEN Rec("A", "X", i)
             ELSE IF i <= a + b THEN Rec("A", "Y", i) ELSE Rec("B", "Z", i)]

\* Corpora around the training thresholds: the empty one, one whose only
\* record is invalid, and corpora of sequence_length + 2, ...,
\* sequence_length + 5 records, which hold sequence_length, ...,
\* sequence_length + 3 records after cleaning (records 5 and 9 go).
TrainCorpora ==
    {Corpus(0, 0, 0, FALSE), <<Rec("A", "X", 9)>>} \cup
    {Corpus(a, 1, 2, FALSE) : a \in (sequence_length - 1)..(sequence_length + 2)}

\* Corpora around the confidence thresholds and the fallback limit.
ServeCorpora ==
    {Corpus(a, b, c, bfirst) :
        a \in {0, MediumMin, MediumMin + 1, HighMin, HighMin + 1},
        b \in {0, 1},
        c \in {0, 1, FallbackRecords + 1},
        bfirst \in BOOLEAN}

\* The strings the encoders see, in Python's string order.
CategoryOrder == <<"A", "B", "C", "Tirupathi", "Tirupati Urban", "W", "X", "Y", "Z">>

(***************************************************************************)
(* The door identifier, WARD-BLOCK-DOOR/BI  (prediction_api.py 63-73)      *)
(***************************************************************************)
DigitValue == [c \in {"0", "1", "2", "3", "4", "5", "6", "7", "8", "9"} |->
                 CASE c = "0" -> 0 [] c = "1" -> 1 [] c = "2" -> 2 [] c = "3" -> 3
                   [] c = "4" -> 4 [] c = "5" -> 5 [] c = "6" -> 6 [] c = "7" -> 7
                   [] c = "8" -> 8 [] c = "9" -> 9]

\* str.split(sep): the parts between the separators, empty parts kept
RECURSIVE SplitFrom(_, _, _)
SplitFrom(s, sep, cur) ==
    IF s = <<>> THEN <<cur>>
    ELSE IF Head(s) = sep THEN <<cur>> \o SplitFrom(Tail(s), sep, <<>>)
    ELSE SplitFrom(Tail(s), sep, Append(cur, Head(s)))

Split(s, sep) == SplitFrom(s, sep, <<>>)

\* int(part) succeeds: over the characters modelled (digits, letters, '-',
\* '/') that is a non-empty string of digits
IsInt(part) == part # <<>> /\ \A k \in 1..Len(part) : part[k] \in DOMAIN DigitValue

RECURSIVE IntOf(_)
IntOf(part) ==
    IF part = <<>> THEN 0
    ELSE IntOf(SubSeq(part, 1, Len(part) - 1)) * 10 + DigitValue[part[Len(part)]]

\* The three assignments of the try block run in order; the first one that
\* raises (IndexError, ValueError) ends the block and the bare except passes.
ParseDoor(tr_door_no) ==
    IF tr_door_no = <<>> THEN <<1, 1, 1>>
    ELSE LET parts == Split(tr_door_no, "/")
             ward_block_door == Split(parts[1], "-")
             ok1 == IsInt(ward_block_door[1])
             ok2 == ok1 /\ Len(ward_block_door) >= 2 /\ IsInt(ward_block_door[2])
             ok3 == ok2 /\ Len(ward_block_door) >= 3 /\ IsInt(ward_block_door[3])
         IN  << IF ok1 THEN IntOf(ward_block_door[1]) ELSE 1,
                IF ok2 THEN IntOf(ward_block_door[2]) ELSE 1,
                IF ok3 THEN IntOf(ward_block_door[3]) ELSE 1 >>

DoorAlphabet == {"2", "a", "-", "/"}

DoorStrings == UNION {[1..n -> DoorAlphabet] : n \in 0..MaxDoorLen}

(***************************************************************************)
(* PropertyPriceLSTM.create_sequences  (lstm_model.py 66-79)               *)
(***************************************************************************)
\* range(n)
Range(n) == 0..(n - 1)

create_sequences_OffByOne(features, target, L) ==
    LET n == Max(0, Len(features) - L + 1)
    IN  [X |-> [i \in 1..n |-> SubSeq(features, i, i + L - 1)],
         y |-> [i \in 1..n |-> IF i + L - 1 <= Len(target) THEN target[i + L - 1] ELSE 0]]

\* Python indexes from 0: iteration i appends features[i : i + L] and
\* target[i + L], which are rows i+1 .. i+L and row i+L+1 counted from 1.
create_sequences(features, target, L) ==
    LET n == Cardinality(Range(Len(features) - L))
    IN  [X |-> [j \in 1..n |-> SubSeq(features, j, j + L - 1)],
         y |-> [j \in 1..n |-> target[j + L]]]

(***************************************************************************)
(* PropertyPriceLSTM instances  (lstm_model.py 13-19)                      *)
(***************************************************************************)
NoModel == [kind |-> "None", run |-> 0]
NewScaler == [fitted |-> FALSE, run |-> 0]
NewEncoder == [fitted |-> FALSE, run |-> 0, classes |-> <<>>]

NewInstance ==
    [model |-> NoModel, scaler |-> NewScaler,
     mandal_encoder |-> NewEncoder, village_encoder |-> NewEncoder]

\* LabelEncoder.fit: classes_ are the sorted distinct values of the column
Classes(values) == SelectSeq(CategoryOrder, LAMBDA c : c \in values)

FitEncoder(df, column, run) ==
    [fitted |-> TRUE, run |-> run,
     classes |-> Classes({df[i][column] : i \in 1..Len(df)})]

IndexOf(seq, x) ==
    IF \E k \in 1..Len(seq) : seq[k] = x
    THEN CHOOSE k \in 1..Len(seq) : seq[k] = x
    ELSE 0

\* encoder.transform([category])[0] with no handler around it: an unseen
\* category (or an unfitted encoder) raises
Encode_NoExcept(encoder, category) ==
    IF encoder.fitted /\ IndexOf(encoder.classes, category) > 0
    THEN [code |-> IndexOf(encoder.classes, category) - 1, raised |-> FALSE]
    ELSE [code |-> 0, raised |-> TRUE]

\* try: encoder.transform([category])[0]  except: 0   (lstm_model.py 161-169)
Encode(encoder, category) ==
    IF encoder.fitted /\ IndexOf(encoder.classes, category) > 0
    THEN [code |-> IndexOf(encoder.classes, category) - 1, raised |-> FALSE]
    ELSE [code |-> 0, raised |-> FALSE]

\* What the network may return for a sequence: the numeric library decides.
ModelOutputs == {35, 45}

\* PropertyPriceLSTM.predict on instance self; y is the network's output.
\* The call reads self and assigns none of its attributes.
LstmPredict(self, mandal, village, y) ==
    LET mandal_encoded == Encode(self.mandal_encoder, mandal)
        village_encoded == Encode(self.village_encoder, village)
        codes == <<mandal_encoded.code, village_encoded.code>>
    IN  IF self.model.kind = "None"
        THEN [error |-> "Model not trained or loaded", value |-> 0, codes |-> <<0, 0>>]
        ELSE IF mandal_encoded.raised \/ village_encoded.raised
        THEN [error |-> "y contains previously unseen labels", value |-> 0,
              codes |-> codes]
        ELSE IF ~self.scaler.fitted
        THEN [error |-> "This MinMaxScaler instance is not fitted yet", value |-> 0,
              codes |-> codes]
        ELSE [error |-> "", value |-> y, codes |-> codes]

(***************************************************************************)
(* predict_price  (prediction_api.py 49-175)                               *)
(***************************************************************************)
\* A mutant of the lookup: the mandal-only rule is skipped.
SimilarProps_NoMandalRule(data, mandal, village) ==
    LET exact == SelectSeq(data, LAMBDA p : p["MANDAL"] = mandal /\ p["VILLAGE"] = village)
    IN  IF exact # <<>> THEN exact ELSE Take(data, FallbackRecords)

\* lines 75-83: exact match, else mandal match, else the first 100 records
SimilarProps(data, mandal, village) ==
    LET exact == SelectSeq(data, LAMBDA p : p["MANDAL"] = mandal /\ p["VILLAGE"] = village)
        by_mandal == SelectSeq(data, LAMBDA p : p["MANDAL"] = mandal)
    IN  IF exact # <<>> THEN exact
        ELSE IF by_mandal # <<>> THEN by_mandal
        ELSE Take(data, FallbackRecords)

\* sum(p.get(field, default) for p in props) / len(props), props non-empty
Mean(props, field, default) ==
    [num |-> SumSeq([i \in 1..Len(props) |-> Get(props[i], field, default)]),
     den |-> Len(props)]

\* line 119
Confidence(n) ==
    IF n > HighMin THEN "HIGH" ELSE IF n > MediumMin THEN "MEDIUM" ELSE "LOW"

\* line 122, in percent
Variance(confidence) ==
    IF confidence = "HIGH" THEN VarianceHigh
    ELSE IF confidence = "MEDIUM" THEN VarianceMedium ELSE VarianceLow

\* lines 128-139
Comparable(prop) ==
    [propertyId |-> Get(prop, "TR_DOOR_NO", 0),
     location |-> <<Get(prop, "VILLAGE", ""), Get(prop, "MANDAL", "")>>,
     district |-> Get(prop, "DISTRICT", ""),
     mandal |-> Get(prop, "MANDAL", ""),
     tr_door_no |-> Get(prop, "TR_DOOR_NO", 0),
     unit_rate |-> Get(prop, "UNIT_RATE", 0),
     comm_rate |-> Get(prop, "COMM_RATE", 0)]

\* lines 171-175
ErrorResponse(message) == [success |-> FALSE, status |-> 500, error |-> message]

\* predict_price's locals before any request: data is the request body,
\* rate is predicted_unit_rate, via tells who computed it, codes are
\* mandal_encoded and village_encoded inside lstm_model.predict
NoLocals ==
    [called |-> FALSE, data |-> [area |-> 0], similar_props |-> <<>>,
     rate |-> [num |-> 0, den |-> 1], via |-> "none", codes |-> <<0, 0>>]

\* A mutant of line 91: the regressor is asked whenever the service runs.
UseRegressor_Always(model_loaded) == TRUE

\* line 91: if model_loaded
UseRegressor(model_loaded) == model_loaded

\* The handler on request body data, the service's globals being
\* tirupati_data, model_loaded and lstm_model; y is what the network would
\* return.  The result is the response and the handler's locals.
PredictPrice(data, tirupati_data, model_loaded, lstm_model, y) ==
    LET district == Get(data, "district", "Tirupati")
        mandal == Get(data, "mandal", "Tirupati Urban")
        village == Get(data, "village", "Tirupathi")
        tr_door_no == Get(data, "tr_door_no", <<>>)
        area == Get(data, "area", DefaultArea)
        property_type == Get(data, "propertyType", "RESIDENTIAL")
        door == ParseDoor(tr_door_no)
        similar_props == SimilarProps(tirupati_data, mandal, village)
    IN  IF similar_props = <<>>
        THEN [response |-> ErrorResponse("division by zero"),
              locals |-> [NoLocals EXCEPT !.called = TRUE, !.data = data]]
        ELSE
        LET avg_comm_rate == Mean(similar_props, "COMM_RATE", DefaultCommRate)
            avg_floor1 == Mean(similar_props, "COMP_FLOOR1", DefaultFloor1)
            avg_floor_oth == Mean(similar_props, "COMP_FLOOR_OTH", DefaultFloorOth)
            avg_prev_rate == Mean(similar_props, "PRE_REV_UNIT_RATE", DefaultPrevRate)
            use == UseRegressor(model_loaded)
            lstm == LstmPredict(lstm_model, mandal, village, y)
        IN  IF use /\ lstm.error # ""
            THEN [response |-> ErrorResponse(lstm.error),
                  locals |-> [NoLocals EXCEPT !.called = TRUE, !.data = data,
                                              !.similar_props = similar_props,
                                              !.codes = lstm.codes]]
            ELSE
            LET predicted_unit_rate ==
                    IF use THEN [num |-> lstm.value, den |-> 1]
                    ELSE Mean(similar_props, "UNIT_RATE", DefaultUnitRate)
                price_per_sqft ==
                    IF property_type = "COMMERCIAL" THEN avg_comm_rate
                    ELSE predicted_unit_rate
                total_price == [num |-> price_per_sqft.num * area, den |-> price_per_sqft.den]
                confidence == Confidence(Len(similar_props))
                variance == Variance(confidence)
            IN  [response |->
                   [success |-> TRUE, status |-> 200,
                    predictedPrice |-> Trunc(total_price.num, total_price.den),
                    priceRange |->
                        [min |-> Trunc(total_price.num * (100 - variance), total_price.den * 100),
                         max |-> Trunc(total_price.num * (100 + variance), total_price.den * 100)],
                    pricePerSqFt |-> Trunc(price_per_sqft.num, price_per_sqft.den),
                    confidence |-> confidence,
                    dataPoints |-> Len(similar_props),
                    modelUsed |-> IF model_loaded THEN "LSTM" ELSE "AVERAGE",
                    factors |->
                        [district |-> district, mandal |-> mandal, village |-> village,
                         tr_door_no |-> tr_door_no, area |-> area,
                         propertyType |-> property_type,
                         ward_no |-> door[1], block_no |-> door[2], door_no |-> door[3],
                         avgCommRate |-> Trunc(avg_comm_rate.num, avg_comm_rate.den),
                         avgFloor1 |-> Trunc(avg_floor1.num, avg_floor1.den),
                         avgFloorOth |-> Trunc(avg_floor_oth.num, avg_floor_oth.den),
                         locationMatches |-> Len(similar_props)],
                    comparableProperties |->
                        [k \in 1..Len(Take(similar_props, MaxComparables)) |->
                            Comparable(similar_props[k])]],
                 locals |->
                   [called |-> TRUE, data |-> data,
                    similar_props |-> similar_props, rate |-> predicted_unit_rate,
                    via |-> IF use THEN "LSTM" ELSE "AVERAGE",
                    codes |-> IF use THEN lstm.codes ELSE <<0, 0>>]]

(***************************************************************************)
(* Training  (lstm_model.py 21-152)                                        *)
(***************************************************************************)
\* rows, whose dates lie in lo..hi, in date order; rows of equal date keep
\* their order (the corpora have no two equal dates)
RECURSIVE SortRange(_, _, _)
SortRange(rows, lo, hi) ==
    IF Len(rows) <= 1 \/ lo >= hi THEN rows
    ELSE LET mid == (lo + hi) \div 2
         IN  SortRange(SelectSeq(rows, LAMBDA p : p["EFFECTIVE_DATE"] <= mid), lo, mid)
             \o SortRange(SelectSeq(rows, LAMBDA p : p["EFFECTIVE_DATE"] > mid), mid + 1, hi)

\* df.sort_values('EFFECTIVE_DATE')
SortByDate(df) ==
    IF df = <<>> THEN df
    ELSE LET dates == {df[i]["EFFECTIVE_DATE"] : i \in 1..Len(df)}
         IN  SortRange(df, CHOOSE d \in dates : \A e \in dates : d <= e,
                           CHOOSE d \in dates : \A e \in dates : d >= e)

\* load_data raises KeyError when no record carries the UNIT_RATE column
HasUnitRateColumn(data) == \E i \in 1..Len(data) : "UNIT_RATE" \in DOMAIN data[i]

\* load_data: rows with UNIT_RATE > 0 (a missing rate is NaN and fails the
\* comparison), sorted by date
load_data(data) ==
    SortByDate(SelectSeq(data, LAMBDA p : "UNIT_RATE" \in DOMAIN p /\ p["UNIT_RATE"] > 0))

\* A mutant of the split: an empty training set is let through.
SplitRaises_Never(n_samples) == FALSE

\* train_test_split(X, y, test_size=0.2): n_test = ceil(0.2 n), the rest is
\* the training set, and an empty training set raises ValueError
SplitRaises(n_samples) == n_samples - CeilPct(n_samples, TestPercent) = 0

\* model.fit(..., validation_split=0.2) raises ValueError when the split
\* leaves the training or the validation part empty
FitRaises(n_train) ==
    LET split_at == FloorPct(n_train, 100 - ValidationPercent)
    IN  split_at = 0 \/ split_at = n_train

\* train(json_path) on instance self in training run `run`: the instance it
\* leaves, how the call ended, and whether model.fit was called.
Train(self, data, run) ==
    IF ~HasUnitRateColumn(data)
    THEN [inst |-> self, result |-> "KeyError", fit_called |-> FALSE, sequences |-> 0]
    ELSE
    LET df == load_data(data)
        encoded == [self EXCEPT !.mandal_encoder = FitEncoder(df, "MANDAL", run),
                                !.village_encoder = FitEncoder(df, "VILLAGE", run)]
        \* the nine feature columns; the scaler maps each column affinely, so
        \* the unscaled rows stand for the scaled ones
        features == [i \in 1..Len(df) |->
                        << IndexOf(encoded.mandal_encoder.classes, df[i]["MANDAL"]) - 1,
                           IndexOf(encoded.village_encoder.classes, df[i]["VILLAGE"]) - 1,
                           df[i]["WARD_NO"], df[i]["BLOCK_NO"], df[i]["DOOR_NO"],
                           df[i]["COMM_RATE"], df[i]["COMP_FLOOR1"],
                           df[i]["COMP_FLOOR_OTH"], df[i]["PRE_REV_UNIT_RATE"] >>]
        target == [i \in 1..Len(df) |-> df[i]["UNIT_RATE"]]
    IN  IF Len(df) = 0
        THEN [inst |-> encoded, result |-> "ValueError", fit_called |-> FALSE,
              sequences |-> 0]
        ELSE
        LET scaled == [encoded EXCEPT !.scaler = [fitted |-> TRUE, run |-> run]]
            Xy == create_sequences(features, target, sequence_length)
            n == Len(Xy.X)
            n_train == n - CeilPct(n, TestPercent)
            built == [scaled EXCEPT !.model = [kind |-> "built", run |-> run]]
        IN  IF SplitRaises(n)
            THEN [inst |-> scaled, result |-> "ValueError", fit_called |-> FALSE,
                  sequences |-> n]
            ELSE IF FitRaises(n_train)
            THEN [inst |-> built, result |-> "ValueError", fit_called |-> TRUE,
                  sequences |-> n]
            ELSE [inst |-> [scaled EXCEPT !.model = [kind |-> "trained", run |-> run]],
                  result |-> "ok", fit_called |-> TRUE, sequences |-> n]

(***************************************************************************)
(* The model store 'ml-model/saved_models'  (lstm_model.py 196-226)        *)
(***************************************************************************)
StoreFiles == {"h5", "scaler", "mandal_encoder", "village_encoder"}

\* What an instance attribute looks like before anything is assigned to it
Blank(file) ==
    IF file = "h5" THEN NoModel ELSE IF file = "scaler" THEN NewScaler ELSE NewEncoder

EmptyStore == [f \in StoreFiles |-> [state |-> "absent", content |-> Blank(f)]]

Attribute(file) == IF file = "h5" THEN "model" ELSE file

\* model.save / pickle.dump of one attribute into its file
Written(store_, self, file) ==
    [store_ EXCEPT ![file] = [state |-> "ok", content |-> self[Attribute(file)]]]

\* a write cut short after the file was opened for writing
Truncated(store_, file) ==
    [store_ EXCEPT ![file] = [state |-> "partial", content |-> Blank(file)]]

SaveOrder == <<"h5", "scaler", "mandal_encoder", "village_encoder">>

(***************************************************************************)
(* Initial states                                                          *)
(***************************************************************************)
NoResponse == [none |-> TRUE]

TrainerIdle ==
    [pc |-> "idle", inst |-> NewInstance, result |-> "none", fit_called |-> FALSE,
     step |-> 1]

\* prediction_api.py 11-16: the module's globals before __main__ runs
ApiStart ==
    [pc |-> "load_dataset", lstm_model |-> NewInstance, model_loaded |-> FALSE,
     tirupati_data |-> <<>>, init_result |-> "none", exception |-> "", step |-> 1]

PureIdle ==
    /\ door_input = <<>>
    /\ door_parsed = [called |-> FALSE, ward_no |-> 1, block_no |-> 1, door_no |-> 1]
    /\ seq_in = [features |-> <<>>, target |-> <<>>, L |-> 1]
    /\ seq_out = [called |-> FALSE, X |-> <<>>, y |-> <<>>]

SystemIdle ==
    /\ dataset_file = <<>>
    /\ check_path_exists = FALSE
    /\ store = EmptyStore
    /\ trainer = TrainerIdle
    /\ runs = 0
    /\ api = ApiStart
    /\ response = NoResponse
    /\ locals = NoLocals

\* Nothing has run yet: a dataset file, an empty model store, and possibly a
\* file at the path init_model tests.
Init ==
    /\ dataset_file \in TrainCorpora
    /\ check_path_exists \in BOOLEAN
    /\ store = EmptyStore
    /\ trainer = TrainerIdle
    /\ runs = 0
    /\ api = ApiStart
    /\ response = NoResponse
    /\ locals = NoLocals
    /\ PureIdle

(***************************************************************************)
(* The training script  (lstm_model.py 228-241)                            *)
(***************************************************************************)
system_vars == <<dataset_file, check_path_exists, store, trainer, runs, api,
                 response, locals>>
pure_vars == <<door_input, door_parsed, seq_in, seq_out>>

\* python lstm_model.py: a new process with a fresh PropertyPriceLSTM
TrainerStart ==
    /\ trainer.pc \in {"idle", "exited"}
    /\ runs < MaxRuns
    /\ runs' = runs + 1
    /\ trainer' = [TrainerIdle EXCEPT !.pc = "train"]
    /\ UNCHANGED <<dataset_file, check_path_exists, store, api, response, locals>>
    /\ UNCHANGED pure_vars

\* lstm_model.train(dataset_path, ...); an exception ends the script
train ==
    /\ trainer.pc = "train"
    /\ LET t == Train(trainer.inst, dataset_file, runs)
       IN  trainer' = [pc |-> IF t.result = "ok" THEN "save" ELSE "exited",
                       inst |-> t.inst, result |-> t.result,
                       fit_called |-> t.fit_called, step |-> 1]
    /\ UNCHANGED <<dataset_file, check_path_exists, store, runs, api, response, locals>>
    /\ UNCHANGED pure_vars

\* save_model: one file is written per step, in the order of the code
save_model ==
    /\ trainer.pc = "save"
    /\ store' = Written(store, trainer.inst, SaveOrder[trainer.step])
    /\ trainer' = IF trainer.step = Len(SaveOrder)
                  THEN [trainer EXCEPT !.pc = "exited", !.result = "saved"]
                  ELSE [trainer EXCEPT !.step = trainer.step + 1]
    /\ UNCHANGED <<dataset_file, check_path_exists, runs, api, response, locals>>
    /\ UNCHANGED pure_vars

\* The script is interrupted, or a write fails, before or inside the write
\* of the next file.
save_interrupted ==
    /\ trainer.pc = "save"
    /\ \E inside \in BOOLEAN :
         store' = IF inside THEN Truncated(store, SaveOrder[trainer.step]) ELSE store
    /\ trainer' = [trainer EXCEPT !.pc = "exited", !.result = "interrupted"]
    /\ UNCHANGED <<dataset_file, check_path_exists, runs, api, response, locals>>
    /\ UNCHANGED pure_vars

(***************************************************************************)
(* The prediction service  (prediction_api.py 18-47, 206-227)              *)
(***************************************************************************)
\* load_dataset()
load_dataset ==
    /\ api.pc = "load_dataset"
    /\ api' = [api EXCEPT !.pc = "init_model", !.tirupati_data = dataset_file]
    /\ UNCHANGED <<dataset_file, check_path_exists, store, trainer, runs, response, locals>>
    /\ UNCHANGED pure_vars

\* init_model(), line 31: the test of 'saved_models/lstm_model.h5'
init_model ==
    /\ api.pc = "init_model"
    /\ api' = IF check_path_exists
              THEN [api EXCEPT !.pc = "load_model", !.step = 1]
              ELSE [api EXCEPT !.pc = "serving", !.init_result = "not_found"]
    /\ UNCHANGED <<dataset_file, check_path_exists, store, trainer, runs, response, locals>>
    /\ UNCHANGED pure_vars

\* load_model assigns each attribute as soon as its file is read
LoadedAttribute(self, file, content) ==
    [self EXCEPT ![Attribute(file)] = content]

\* lstm_model.load_model(), one file per step, inside init_model's try:
\* a file that is missing or cut short raises (exception records which),
\* the except clause prints, and __main__ goes on to app.run; after the
\* last file model_loaded is set.
load_model ==
    /\ api.pc = "load_model"
    /\ LET file == SaveOrder[api.step]
           last == api.step = Len(SaveOrder)
       IN  api' =
             IF store[file].state # "ok"
             THEN [api EXCEPT !.pc = "serving", !.init_result = "error",
                              !.exception = store[file].state]
             ELSE IF last
             THEN [api EXCEPT !.pc = "serving", !.init_result = "loaded",
                              !.model_loaded = TRUE,
                              !.lstm_model = LoadedAttribute(api.lstm_model, file,
                                                             store[file].content)]
             ELSE [api EXCEPT !.step = api.step + 1,
                              !.lstm_model = LoadedAttribute(api.lstm_model, file,
                                                             store[file].content)]
    /\ UNCHANGED <<dataset_file, check_path_exists, store, trainer, runs, response, locals>>
    /\ UNCHANGED pure_vars

\* Request bodies: the keys are optional, data.get supplies the defaults.
\* (A, X) can match exactly, (A, W) by mandal only, C matches nothing.
Requests ==
    { [mandal |-> "A", village |-> "X", area |-> 10, propertyType |-> "RESIDENTIAL",
       tr_door_no |-> <<"2", "-", "2", "2", "-", "2", "/", "a">>],
      [mandal |-> "A", village |-> "W", area |-> 10, propertyType |-> "COMMERCIAL",
       tr_door_no |-> <<"2", "-", "a">>],
      [mandal |-> "B", village |-> "Z", area |-> 25, propertyType |-> "LAND",
       district |-> "Chittoor"],
      [mandal |-> "C", village |-> "X", area |-> 10],
      [area |-> 10] }

\* POST /api/predict
predict_price ==
    /\ api.pc = "serving"
    /\ \E data \in Requests,
          y \in IF UseRegressor(api.model_loaded) THEN ModelOutputs ELSE {0} :
         LET r == PredictPrice(data, api.tirupati_data, api.model_loaded,
                               api.lstm_model, y)
         IN  /\ response' = r.response
             /\ locals' = r.locals
    /\ UNCHANGED <<dataset_file, check_path_exists, store, trainer, runs, api>>
    /\ UNCHANGED pure_vars

\* GET /health
health ==
    /\ api.pc = "serving"
    /\ response' = [status |-> "ok", model_loaded |-> api.model_loaded,
                    dataset_records |-> Len(api.tirupati_data)]
    /\ UNCHANGED <<dataset_file, check_path_exists, store, trainer, runs, api, locals>>
    /\ UNCHANGED pure_vars

Next ==
    \/ TrainerStart
    \/ train
    \/ save_model
    \/ save_interrupted
    \/ load_dataset
    \/ init_model
    \/ load_model
    \/ predict_price
    \/ health

Spec == Init /\ [][Next]_vars

(***************************************************************************)
(* The service alone, over corpora around the confidence thresholds        *)
(***************************************************************************)
\* The store a completed training run leaves
SavedStore(self) ==
    [f \in StoreFiles |-> [state |-> "ok", content |-> self[Attribute(f)]]]

\* The training script has not run, or has run once to completion on the
\* dataset; then the service starts.
InitServe ==
    /\ dataset_file \in ServeCorpora
    /\ check_path_exists \in BOOLEAN
    /\ \/ store = EmptyStore /\ trainer = TrainerIdle /\ runs = 0
       \/ LET t == Train(NewInstance, dataset_file, 1)
          IN  /\ t.result = "ok"
              /\ store = SavedStore(t.inst)
              /\ trainer = [pc |-> "exited", inst |-> t.inst, result |-> "saved",
                            fit_called |-> TRUE, step |-> Len(SaveOrder)]
              /\ runs = 1
    /\ api = ApiStart
    /\ response = NoResponse
    /\ locals = NoLocals
    /\ PureIdle

NextServe ==
    \/ load_dataset
    \/ init_model
    \/ load_model
    \/ predict_price
    \/ health

SpecServe == InitServe /\ [][NextServe]_vars

(***************************************************************************)
(* The door parse on every string over the alphabet                        *)
(***************************************************************************)
InitDoor ==
    /\ SystemIdle
    /\ door_input \in DoorStrings
    /\ door_parsed = [called |-> FALSE, ward_no |-> 1, block_no |-> 1, door_no |-> 1]
    /\ seq_in = [features |-> <<>>, target |-> <<>>, L |-> 1]
    /\ seq_out = [called |-> FALSE, X |-> <<>>, y |-> <<>>]

\* lines 63-73 of predict_price on tr_door_no = door_input
parse_door ==
    /\ ~door_parsed.called
    /\ LET d == ParseDoor(door_input)
       IN  door_parsed' = [called |-> TRUE, ward_no |-> d[1], block_no |-> d[2],
                           door_no |-> d[3]]
    /\ UNCHANGED <<door_input, seq_in, seq_out>>
    /\ UNCHANGED system_vars

SpecDoor == InitDoor /\ [][parse_door]_vars

(***************************************************************************)
(* create_sequences on small tables                                        *)
(***************************************************************************)
\* Tables of at most MaxRows rows over two row values with every window
\* length up to MaxSeqLen, and tables of distinct rows around the
\* instance's own sequence_length.
SeqInputs ==
    UNION {[features : [1..n -> {0, 1}], target : [1..n -> {7, 8}], L : 1..MaxSeqLen] :
              n \in 0..MaxRows}
    \cup {[features |-> [i \in 1..n |-> i], target |-> [i \in 1..n |-> 100 + i],
           L |-> sequence_length] : n \in 0..(sequence_length + MaxRows)}

InitSeq ==
    /\ SystemIdle
    /\ door_input = <<>>
    /\ door_parsed = [called |-> FALSE, ward_no |-> 1, block_no |-> 1, door_no |-> 1]
    /\ seq_in \in SeqInputs
    /\ seq_out = [called |-> FALSE, X |-> <<>>, y |-> <<>>]

create_sequences_call ==
    /\ ~seq_out.called
    /\ LET r == create_sequences(seq_in.features, seq_in.target, seq_in.L)
       IN  seq_out' = [called |-> TRUE, X |-> r.X, y |-> r.y]
    /\ UNCHANGED <<door_input, door_parsed, seq_in>>
    /\ UNCHANGED system_vars

SpecSeq == InitSeq /\ [][create_sequences_call]_vars

(***************************************************************************)
(* Properties                                                              *)
(***************************************************************************)
\* The last response is one of /api/predict
PredictAnswered == locals.called /\ "success" \in DOMAIN response

ReqMandal == Get(locals.data, "mandal", "Tirupati Urban")
ReqVillage == Get(locals.data, "village", "Tirupathi")

\* Positions of the corpus that match the last request exactly, and by mandal
ExactIdx ==
    {i \in 1..Len(api.tirupati_data) :
        /\ api.tirupati_data[i]["MANDAL"] = ReqMandal
        /\ api.tirupati_data[i]["VILLAGE"] = ReqVillage}
MandalIdx ==
    {i \in 1..Len(api.tirupati_data) : api.tirupati_data[i]["MANDAL"] = ReqMandal}
FirstIdx ==
    {i \in 1..Len(api.tirupati_data) : i <= FallbackRecords}

\* seq holds exactly the corpus records at the positions idx, in corpus
\* order (record i of a corpus carries TR_DOOR_NO = i)
IsSubsetAt(seq, idx) ==
    /\ Len(seq) = Cardinality(idx)
    /\ \A k \in 1..Len(seq) :
          /\ seq[k]["TR_DOOR_NO"] \in idx
          /\ seq[k] = api.tirupati_data[seq[k]["TR_DOOR_NO"]]
          /\ k > 1 => seq[k - 1]["TR_DOOR_NO"] < seq[k]["TR_DOOR_NO"]

\* C1: after every predict request over a non-empty corpus the matched
\* subset is non-empty and is the exact (mandal, village) matches if there
\* are any, else the mandal matches if there are any, else the first 100
\* records of the corpus, in corpus order.
C1_SubsetByFirstNonEmptyRule ==
    (locals.called /\ api.tirupati_data # <<>>) =>
        /\ locals.similar_props # <<>>
        /\ IsSubsetAt(locals.similar_props,
                      IF ExactIdx # {} THEN ExactIdx
                      ELSE IF MandalIdx # {} THEN MandalIdx
                      ELSE FirstIdx)

\* A request with no exact match and some mandal match was answered from
\* the mandal matches, which are not the whole corpus.
C1_Witness ==
    /\ PredictAnswered
    /\ ExactIdx = {}
    /\ MandalIdx # {}
    /\ Cardinality(MandalIdx) < Len(api.tirupati_data)
    /\ response.success
    /\ response.dataPoints = Cardinality(MandalIdx)

\* C3: the confidence of a successful predict response is HIGH for a
\* subset of 51, MEDIUM for 50 and for 11, LOW for 10, and LOW whenever no
\* record matches the request's location (neither mandal and village nor
\* mandal), the first-100 fallback having been substituted.
C3_ConfidenceTiers ==
    (PredictAnswered /\ response.success) =>
        /\ response.dataPoints = HighMin + 1 => response.confidence = "HIGH"
        /\ response.dataPoints = HighMin => response.confidence = "MEDIUM"
        /\ response.dataPoints = MediumMin + 1 => response.confidence = "MEDIUM"
        /\ response.dataPoints = MediumMin => response.confidence = "LOW"
        /\ (ExactIdx = {} /\ MandalIdx = {}) => response.confidence = "LOW"

\* A request whose location no record matches was answered from the first
\* 100 records of a larger corpus, with confidence HIGH.
C3_Witness ==
    /\ PredictAnswered
    /\ response.success
    /\ ExactIdx = {}
    /\ MandalIdx = {}
    /\ response.dataPoints = FallbackRecords
    /\ response.confidence = "HIGH"

\* The parts of the first segment of the door identifier
DoorParts == Split(Split(door_input, "/")[1], "-")
DoorWellFormed ==
    /\ door_input # <<>>
    /\ Len(DoorParts) = 3
    /\ \A k \in 1..3 : IsInt(DoorParts[k])

\* C4: the parse yields the three integers of a well-formed identifier,
\* and for every other identifier exactly ward = 1, block = 1, door = 1.
C4_ParseAllOrNothing ==
    door_parsed.called =>
        IF DoorWellFormed
        THEN /\ door_parsed.ward_no = IntOf(DoorParts[1])
             /\ door_parsed.block_no = IntOf(DoorParts[2])
             /\ door_parsed.door_no = IntOf(DoorParts[3])
        ELSE /\ door_parsed.ward_no = 1
             /\ door_parsed.block_no = 1
             /\ door_parsed.door_no = 1

\* A malformed identifier whose first part is numeric keeps that part.
C4_Witness ==
    /\ door_parsed.called
    /\ ~DoorWellFormed
    /\ door_parsed.ward_no # 1
    /\ door_parsed.door_no = 1

\* C5: for a table of N rows and window L, create_sequences returns
\* max(0, N - L) sequences of L rows each; sequence j (from 1) holds rows
\* j .. j+L-1 in order and its target is the target of row j+L.
C5_SlidingWindows ==
    seq_out.called =>
        LET N == Len(seq_in.features)
            L == seq_in.L
        IN  /\ Len(seq_out.X) = Max(0, N - L)
            /\ Len(seq_out.y) = Max(0, N - L)
            /\ \A j \in 1..Len(seq_out.X) :
                  /\ Len(seq_out.X[j]) = L
                  /\ \A k \in 1..L : seq_out.X[j][k] = seq_in.features[j + k - 1]
                  /\ seq_out.y[j] = seq_in.target[j + L]

\* A table two rows longer than the instance's sequence_length gave two
\* sequences.
C5_Witness ==
    /\ seq_out.called
    /\ seq_in.L = sequence_length
    /\ Len(seq_in.features) = sequence_length + 2
    /\ Len(seq_out.X) = 2

\* predict on instance self raises "Model not trained or loaded"
NotReady(self) == LstmPredict(self, "A", "X", 0).error = "Model not trained or loaded"

\* The sum of UNIT_RATE over the matched subset of the last request
UnitRateSum ==
    SumSeq([i \in 1..Len(locals.similar_props) |->
               Get(locals.similar_props[i], "UNIT_RATE", DefaultUnitRate)])

\* C2: whatever startup left (no store found, load succeeded, load failed
\* part-way), a predict request over a non-empty corpus is never answered
\* with the regressor's "model not ready" error; when load_model has not
\* succeeded the request succeeds, the unit rate is the arithmetic mean of
\* UNIT_RATE over the matched subset and modelUsed is AVERAGE; and
\* modelUsed is LSTM only when the regressor produced the rate.
C2_FallbackNeverSurfacesNotReady ==
    (PredictAnswered /\ api.tirupati_data # <<>>) =>
        /\ Get(response, "error", "") # "Model not trained or loaded"
        /\ api.init_result # "loaded" =>
              /\ response.success
              /\ response.modelUsed = "AVERAGE"
              /\ locals.via = "AVERAGE"
              /\ locals.rate.den = Len(locals.similar_props)
              /\ locals.rate.num = UnitRateSum
        /\ (response.success /\ response.modelUsed = "LSTM") =>
              /\ locals.via = "LSTM"
              /\ ~NotReady(api.lstm_model)
              /\ locals.rate.den = 1
              /\ locals.rate.num \in ModelOutputs

\* load_model failed after it had assigned the model, and a request was
\* answered from the averages.
C2_Witness ==
    /\ PredictAnswered
    /\ api.tirupati_data # <<>>
    /\ api.init_result = "error"
    /\ ~NotReady(api.lstm_model)
    /\ response.success
    /\ response.modelUsed = "AVERAGE"

\* train, or load_model, has returned normally on the instance
TrainerSucceeded == trainer.pc = "save" \/ trainer.result \in {"saved", "interrupted"}
ApiSucceeded == api.init_result = "loaded"

\* C6: an instance on which no train or load_model call has completed
\* successfully (calls that raised do not count) answers predict with
\* "model not ready"; and an instance on which one has succeeded is never
\* again without a model.
C6_NotReadyUntilSuccess ==
    /\ (trainer.pc = "exited" /\ ~TrainerSucceeded) => NotReady(trainer.inst)
    /\ (api.pc = "serving" /\ ~ApiSucceeded) => NotReady(api.lstm_model)
    /\ TrainerSucceeded => ~NotReady(trainer.inst)
    /\ ApiSucceeded => ~NotReady(api.lstm_model)

\* train raised inside model.fit and left the built, unfitted model behind.
C6_Witness ==
    /\ trainer.pc = "exited"
    /\ trainer.result = "ValueError"
    /\ trainer.fit_called
    /\ ~NotReady(trainer.inst)

StoreLoadable == \A f \in StoreFiles : store[f].state = "ok"
StoreOfOneSave == \A f, g \in StoreFiles : store[f].content.run = store[g].content.run

\* The instance holds no model, or a model with the scaler and encoders of
\* the same training run
InstanceOfOneRun(self) ==
    self.model.kind # "None" =>
        /\ self.scaler.fitted
        /\ self.mandal_encoder.fitted
        /\ self.village_encoder.fitted
        /\ self.scaler.run = self.model.run
        /\ self.mandal_encoder.run = self.model.run
        /\ self.village_encoder.run = self.model.run

\* C7: weights, encoders and scaler are saved and loaded as one unit: no
\* store state is loadable with files written by different saves, and no
\* instance at rest holds a model together with encoders or a scaler of
\* another save, or unfitted ones.
C7_AtomicSaveLoad ==
    /\ StoreLoadable => StoreOfOneSave
    /\ api.pc = "serving" => InstanceOfOneRun(api.lstm_model)
    /\ trainer.pc = "exited" => InstanceOfOneRun(trainer.inst)

\* A second save was interrupted and the service then loaded, without any
\* error, the weights of one training run with the scaler of another.
C7_Witness ==
    /\ api.pc = "serving"
    /\ api.init_result = "loaded"
    /\ api.model_loaded
    /\ api.lstm_model.model.run # api.lstm_model.scaler.run

\* C8: with no stored model the service starts in fallback-only mode; with
\* a store that is partial or corrupt (a file cut short, or files missing
\* after the first) startup fails and the service does not go on to serve.
C8_DistinctLoadFailures ==
    /\ api.init_result = "not_found" => ~api.model_loaded
    /\ (api.init_result = "error" /\ (api.exception = "partial" \/ api.step > 1))
          => api.pc # "serving"

\* The store was partial, init_model swallowed the error, and a request was
\* served from the averages.
C8_Witness ==
    /\ api.init_result = "error"
    /\ api.step > 1
    /\ PredictAnswered
    /\ response.success
    /\ response.modelUsed = "AVERAGE"

\* Records of the dataset file that load_data keeps
UsableRecords == IF HasUnitRateColumn(dataset_file) THEN Len(load_data(dataset_file)) ELSE 0

\* C9: train on a corpus with at most sequence_length usable records ends
\* with an error, without model.fit having been called, and leaves the
\* instance without a model.
C9_InsufficientDataAborts ==
    (trainer.pc \in {"save", "exited"} /\ UsableRecords <= sequence_length) =>
        /\ trainer.pc = "exited"
        /\ trainer.result \in {"KeyError", "ValueError"}
        /\ ~trainer.fit_called
        /\ NotReady(trainer.inst)

\* train was run on exactly sequence_length usable records and raised
\* after the encoders and the scaler had been fitted.
C9_Witness ==
    /\ trainer.pc = "exited"
    /\ UsableRecords = sequence_length
    /\ trainer.result = "ValueError"
    /\ trainer.inst.scaler.fitted
    /\ NotReady(trainer.inst)

Unseen(encoder, category) == \A k \in 1..Len(encoder.classes) : encoder.classes[k] # category

\* C10: a predict request served by a loaded regressor does not raise, and
\* a mandal or village that the encoder did not see at fit is encoded as 0;
\* and while the service is serving no step changes the model, the scaler
\* or the encoders.
C10_UnseenCategoryAndReadOnly ==
    /\ [](( PredictAnswered /\ api.tirupati_data # <<>> /\ api.init_result = "loaded") =>
            /\ response.success
            /\ locals.via = "LSTM"
            /\ Unseen(api.lstm_model.mandal_encoder, ReqMandal) => locals.codes[1] = 0
            /\ Unseen(api.lstm_model.village_encoder, ReqVillage) => locals.codes[2] = 0)
    /\ [][api.pc = "serving" => api'.lstm_model = api.lstm_model]_vars

\* A request for a mandal and a village the encoders never saw was answered
\* by the regressor.
C10_Witness ==
    /\ PredictAnswered
    /\ api.init_result = "loaded"
    /\ Unseen(api.lstm_model.mandal_encoder, ReqMandal)
    /\ Unseen(api.lstm_model.village_encoder, ReqVillage)
    /\ response.success
    /\ response.modelUsed = "LSTM"
    /\ locals.codes = <<0, 0>>

====
